---------------------------- MODULE Spec2Model ----------------------------
(***************************************************************************)
(* Subscription vault: the billing state machine and charge engine of      *)
(* contracts/subscription_vault.  The contract's instance storage holds    *)
(* one Subscription record per id, the id counter and the configuration    *)
(* (token, admin, min_topup, grace_period); the ledger supplies the time.   *)
(* Every                                                                   *)
(* entry point runs to completion, so each is one action.  An invocation   *)
(* that panics (a failed require_auth, an unwrap of a missing key, a       *)
(* trapped arithmetic overflow, a rejected token transfer) is aborted by   *)
(* the host and leaves the storage as it was: its outcome is "Trap".       *)
(*                                                                         *)
(* The integer types keep their width, scaled down: u64 is 0..U64_MAX and  *)
(* i128 is I128_MIN..I128_MAX.                                              *)
(***************************************************************************)
EXTENDS Integers, Sequences, FiniteSets, TLC

\* ------------------------------------------------------------------ bounds
MaxSubs     == 1    \* subscriptions that may be created
U64_MAX     == 4    \* the largest ledger time / u64 value of the model
I128_MAX    == 2    \* the largest i128 value of the model
MaxAmount   == 1    \* create_subscription draws amount from -1..MaxAmount
MaxInterval == 2    \* create_subscription draws interval_seconds from 0..MaxInterval
MaxGrace    == 1    \* grace periods are drawn from 0..MaxGrace
MaxDeposit  == 1    \* deposit_funds draws amount from -1..MaxDeposit
MaxBatch    == 2    \* batch_charge takes lists of at most MaxBatch ids
BatchSubs   == 2    \* subscriptions in the store of the batch system
MaxNumIntervals == 2 \* estimate_topup_for_intervals draws num_intervals from 0..MaxNumIntervals
U32_MAX     == 3    \* the largest u32 value of the model (subscription ids)
MaxMinTopup == 2    \* minimum top-ups are drawn from 1..MaxMinTopup

I128_MIN == -I128_MAX - 1

\* ------------------------------------------------------------- value sets
Address     == {"alice", "bob", "carol"}
Subscribers == {"alice"}
Merchants   == {"bob"}
Admins      == {"carol"}

Ids          == 0..MaxSubs            \* MaxSubs itself is never a stored id
AmountInputs == -1..MaxAmount
IntervalInputs == 0..MaxInterval
GraceInputs  == 0..MaxGrace
DepositInputs == -1..MaxDeposit
MinTopupInputs == 1..MaxMinTopup

\* Option<T> is a set with at most one element.
None      == {}
Some(x)   == {x}
unwrap(o) == CHOOSE x \in o : TRUE

VARIABLES
    store,          \* instance storage, the subscription keys: id -> Subscription
    next_id,        \* instance storage, key "next_id"
    token,          \* instance storage, key "token" (Option)
    admin,          \* instance storage, key "admin" (Option)
    grace_period,   \* instance storage, key "grace_period" (Option)
    min_topup,      \* instance storage, key "min_topup" (Option)
    now,            \* env.ledger().timestamp()
    ret,            \* the last invocation, what it returned and the storage it found
    ledger          \* per id: deposits - charges - refunds, from the outcomes of the calls

vars == <<store, next_id, token, admin, grace_period, min_topup, now, ret, ledger>>

\* ------------------------------------------------------------------ types
SubscriptionStatus == {"Active", "Paused", "Cancelled", "InsufficientBalance", "GracePeriod"}

NoIds == <<>>

Ret(op, id, res) ==
    [op |-> op, id |-> id, res |-> res, val |-> 0, ids |-> NoIds, results |-> NoIds,
     before |-> store]

\* ------------------------------------------------------- checked arithmetic
\* Mutant: the sum wrapped around instead of refused.
wrapping_add_u64(a, b) == Some((a + b) % (U64_MAX + 1))

checked_add_u64(a, b) == IF a + b > U64_MAX THEN None ELSE Some(a + b)

checked_sub_i128(a, b) == IF a - b > I128_MAX \/ a - b < I128_MIN THEN None ELSE Some(a - b)

\* ------------------------------------------------------------ state machine
\* Mutant: the table without the edge GracePeriod -> Active.
get_allowed_transitions_grace_final(status) ==
    CASE status = "Active"              -> {"Paused", "Cancelled", "InsufficientBalance", "GracePeriod"}
      [] status = "Paused"              -> {"Active", "Cancelled"}
      [] status = "GracePeriod"         -> {"InsufficientBalance"}
      [] status = "InsufficientBalance" -> {"Active", "Cancelled"}
      [] status = "Cancelled"           -> {}

\* Mutant: the table without the edge Active -> GracePeriod.
get_allowed_transitions_without_grace(status) ==
    CASE status = "Active"              -> {"Paused", "Cancelled", "InsufficientBalance"}
      [] status = "Paused"              -> {"Active", "Cancelled"}
      [] status = "GracePeriod"         -> {"Active", "InsufficientBalance"}
      [] status = "InsufficientBalance" -> {"Active", "Cancelled"}
      [] status = "Cancelled"           -> {}

get_allowed_transitions(status) ==
    CASE status = "Active"              -> {"Paused", "Cancelled", "InsufficientBalance", "GracePeriod"}
      [] status = "Paused"              -> {"Active", "Cancelled"}
      [] status = "GracePeriod"         -> {"Active", "InsufficientBalance"}
      [] status = "InsufficientBalance" -> {"Active", "Cancelled"}
      [] status = "Cancelled"           -> {}

\* Mutant: a transition to the same status looked up in the table like any other.
validate_status_transition_no_self(from, to) ==
    IF to \in get_allowed_transitions(from) THEN "Ok" ELSE "InvalidStatusTransition"

validate_status_transition(from, to) ==
    IF from = to THEN "Ok"
    ELSE IF to \in get_allowed_transitions(from) THEN "Ok"
    ELSE "InvalidStatusTransition"

can_transition(from, to) == validate_status_transition(from, to) = "Ok"

\* ------------------------------------------------------------------ queries
get_subscription(S, id) == IF id \in DOMAIN S THEN Some(S[id]) ELSE None

\* Mutant: an unset grace period read as one second.
get_grace_period_default_one(gp) == IF gp = None THEN 1 ELSE unwrap(gp)

get_grace_period(gp) == IF gp = None THEN 0 ELSE unwrap(gp)

\* ------------------------------------------------------------- charge engine
Charged(S, res) == [store |-> S, res |-> res]

\* Mutant: InsufficientBalance left out of the rejected statuses.
not_chargeable_lax(status) == status = "Paused" \/ status = "Cancelled"

\* charge_core.rs:13   status != Active && status != GracePeriod
not_chargeable(status) == status # "Active" /\ status # "GracePeriod"

\* charge_core.rs:18   last_payment_timestamp.checked_add(interval_seconds)
next_allowed_of(sub) == checked_add_u64(sub.last_payment_timestamp, sub.interval_seconds)

\* Mutant: a charge one second early let through.
interval_not_elapsed_lenient(t, next_allowed) == t + 1 < next_allowed

\* charge_core.rs:22   now < next_allowed
interval_not_elapsed(t, next_allowed) == t < next_allowed

\* Mutant: the balance compared with zero, not with the amount.
insufficient_funds_vs_zero(sub) == sub.prepaid_balance < 0

\* Mutant: a balance equal to the amount counted as short.
insufficient_funds_inclusive(sub) == sub.prepaid_balance <= sub.amount

\* charge_core.rs:26   prepaid_balance < amount
insufficient_funds(sub) == sub.prepaid_balance < sub.amount

\* charge_core.rs:28   next_allowed.checked_add(grace_duration)
grace_expires_of(next_allowed, grace_duration) == checked_add_u64(next_allowed, grace_duration)

\* Mutant: the instant the grace window ends counted as inside it.
within_grace_inclusive(t, grace_expires) == t <= grace_expires

\* Mutant: the comparison turned around.
within_grace_inverted(t, grace_expires) == t >= grace_expires

\* charge_core.rs:32   now < grace_expires
within_grace(t, grace_expires) == t < grace_expires

\* charge_core.rs:47   prepaid_balance.checked_sub(amount)
deducted(sub) == checked_sub_i128(sub.prepaid_balance, sub.amount)

\* Mutant: the window anchored at the scheduled time, not at the time of the charge.
paid_on_schedule(sub, balance, t) ==
    [sub EXCEPT !.prepaid_balance = balance,
                !.last_payment_timestamp = sub.last_payment_timestamp + sub.interval_seconds]

\* Mutant: the new balance not stored.
paid_stale_balance(sub, balance, t) == [sub EXCEPT !.last_payment_timestamp = t]

\* charge_core.rs:47-51   the record after the deduction
paid(sub, balance, t) ==
    [sub EXCEPT !.prepaid_balance = balance, !.last_payment_timestamp = t]

\* Mutant: the schedule advanced together with the status.
with_status_rescheduled(S, id, sub, to, res) ==
    IF validate_status_transition(sub.status, to) # "Ok"
    THEN Charged(S, "InvalidStatusTransition")
    ELSE Charged([S EXCEPT ![id] = [sub EXCEPT !.status = to,
                                               !.last_payment_timestamp = @ + sub.interval_seconds]],
                 res)

\* Mutant: the status validated but never written to storage.
with_status_unsaved(S, id, sub, to, res) ==
    IF validate_status_transition(sub.status, to) # "Ok"
    THEN Charged(S, "InvalidStatusTransition")
    ELSE Charged(S, res)

\* charge_core.rs:33-36, 40-42, 53-56   validate, then write the status
with_status(S, id, sub, to, res) ==
    IF validate_status_transition(sub.status, to) # "Ok"
    THEN Charged(S, "InvalidStatusTransition")
    ELSE Charged([S EXCEPT ![id] = [sub EXCEPT !.status = to]], res)

\* Mutant: the charged record stored with the status it had.
persisted_as_it_was(S, id, status, charged) == Charged([S EXCEPT ![id] = charged], "Ok")

\* charge_core.rs:53-59   GracePeriod goes back to Active; the record is stored
persisted(S, id, status, charged) ==
    IF status = "GracePeriod"
    THEN with_status(S, id, charged, "Active", "Ok")
    ELSE Charged([S EXCEPT ![id] = charged], "Ok")

\* Mutant: the interval looked at before the status.
charge_one_interval_first(S, gp, id, t) ==
    IF get_subscription(S, id) = None THEN Charged(S, "NotFound")
    ELSE LET sub == S[id] IN
    LET next_allowed == next_allowed_of(sub) IN
    IF next_allowed = None THEN Charged(S, "Overflow")
    ELSE IF interval_not_elapsed(t, unwrap(next_allowed)) THEN Charged(S, "IntervalNotElapsed")
    ELSE IF not_chargeable(sub.status) THEN Charged(S, "NotActive")
    ELSE IF insufficient_funds(sub) THEN
        LET grace_duration == get_grace_period(gp)
            grace_expires  == grace_expires_of(unwrap(next_allowed), grace_duration)
        IN  IF grace_expires = None THEN Charged(S, "Overflow")
            ELSE IF within_grace(t, unwrap(grace_expires)) THEN
                IF sub.status # "GracePeriod"
                THEN with_status(S, id, sub, "GracePeriod", "InsufficientBalance")
                ELSE Charged(S, "InsufficientBalance")
            ELSE with_status(S, id, sub, "InsufficientBalance", "InsufficientBalance")
    ELSE LET balance == deducted(sub) IN
    IF balance = None THEN Charged(S, "Overflow")
    ELSE persisted(S, id, sub.status, paid(sub, unwrap(balance), t))

charge_one(S, gp, id, t) ==
    IF get_subscription(S, id) = None THEN Charged(S, "NotFound")
    ELSE LET sub == S[id] IN
    IF not_chargeable(sub.status) THEN Charged(S, "NotActive")
    ELSE LET next_allowed == next_allowed_of(sub) IN
    IF next_allowed = None THEN Charged(S, "Overflow")
    ELSE IF interval_not_elapsed(t, unwrap(next_allowed)) THEN Charged(S, "IntervalNotElapsed")
    ELSE IF insufficient_funds(sub) THEN
        LET grace_duration == get_grace_period(gp)
            grace_expires  == grace_expires_of(unwrap(next_allowed), grace_duration)
        IN  IF grace_expires = None THEN Charged(S, "Overflow")
            ELSE IF within_grace(t, unwrap(grace_expires)) THEN
                IF sub.status # "GracePeriod"
                THEN with_status(S, id, sub, "GracePeriod", "InsufficientBalance")
                ELSE Charged(S, "InsufficientBalance")
            ELSE with_status(S, id, sub, "InsufficientBalance", "InsufficientBalance")
    ELSE LET balance == deducted(sub) IN
    IF balance = None THEN Charged(S, "Overflow")
    ELSE persisted(S, id, sub.status, paid(sub, unwrap(balance), t))

\* ---------------------------------------------------------------- the state
Init ==
    /\ store = <<>>
    /\ next_id = 0
    /\ token = None
    /\ admin = None
    /\ grace_period = None
    /\ min_topup = None
    /\ now = 0
    /\ ret = Ret("deploy", 0, "Ok")
    /\ ledger = <<>>

Config == <<token, admin, grace_period, min_topup>>

\* ------------------------------------------------------------------ actions
Tick ==
    /\ now < U64_MAX
    /\ now' = now + 1
    /\ ret' = Ret("tick", 0, "Ok")
    /\ UNCHANGED <<store, next_id, Config, ledger>>

ChargeOne(id) ==
    LET r == charge_one(store, grace_period, id, now) IN
    /\ store' = r.store
    /\ ret' = Ret("charge_one", id, r.res)
    /\ ledger' = IF r.res = "Ok" THEN [ledger EXCEPT ![id] = @ - store[id].amount] ELSE ledger
    /\ UNCHANGED <<next_id, Config, now>>

\* The token contract is a collaborator: it rejects a negative amount, and its
\* rejection is a panic.  The payer is taken to hold the funds.
token_transfer(amount) == amount >= 0

Failed(op, id, res) ==
    /\ ret' = Ret(op, id, res)
    /\ UNCHANGED <<store, next_id, Config, now, ledger>>

\* Mutant: the counter read but not advanced.
next_id_stuck(counter) == Some(counter)

\* lib.rs _next_id: the counter after the id is handed out; id + 1 traps
\* when it leaves u32.
_next_id(counter) == IF counter + 1 > U32_MAX THEN None ELSE Some(counter + 1)

\* lib.rs create_subscription: no validation of amount or interval_seconds.
create_subscription(subscriber, merchant, amount, interval_seconds, usage_enabled) ==
    LET sub == [subscriber |-> subscriber,
                merchant |-> merchant,
                amount |-> amount,
                interval_seconds |-> interval_seconds,
                last_payment_timestamp |-> now,
                status |-> "Active",
                prepaid_balance |-> 0,
                usage_enabled |-> usage_enabled]
        id == next_id
    IN  IF _next_id(id) = None THEN Failed("create_subscription", id, "Trap")
        ELSE /\ next_id' = unwrap(_next_id(id))
             /\ store' = (id :> sub) @@ store
             /\ ledger' = (id :> 0) @@ ledger
             /\ ret' = Ret("create_subscription", id, "Ok")
             /\ UNCHANGED <<Config, now>>

\* Mutant: a deposit brings the subscription back to Active.
deposit_funds_reactivating(id, subscriber, amount) ==
    IF get_subscription(store, id) = None THEN Failed("deposit_funds", id, "NotFound")
    ELSE IF subscriber # store[id].subscriber THEN Failed("deposit_funds", id, "Unauthorized")
    ELSE IF token = None THEN Failed("deposit_funds", id, "Trap")
    ELSE IF ~token_transfer(amount) THEN Failed("deposit_funds", id, "Trap")
    ELSE IF store[id].prepaid_balance + amount > I128_MAX THEN Failed("deposit_funds", id, "Trap")
    ELSE /\ store' = [store EXCEPT ![id].prepaid_balance = @ + amount,
                                   ![id].status = IF @ = "InsufficientBalance" THEN "Active" ELSE @]
         /\ ledger' = [ledger EXCEPT ![id] = @ + amount]
         /\ ret' = Ret("deposit_funds", id, "Ok")
         /\ UNCHANGED <<next_id, Config, now>>

deposit_funds(id, subscriber, amount) ==
    IF get_subscription(store, id) = None THEN Failed("deposit_funds", id, "NotFound")
    ELSE IF subscriber # store[id].subscriber THEN Failed("deposit_funds", id, "Unauthorized")
    ELSE IF token = None THEN Failed("deposit_funds", id, "Trap")
    ELSE IF ~token_transfer(amount) THEN Failed("deposit_funds", id, "Trap")
    ELSE IF store[id].prepaid_balance + amount > I128_MAX THEN Failed("deposit_funds", id, "Trap")
    ELSE /\ store' = [store EXCEPT ![id].prepaid_balance = @ + amount]
         /\ ledger' = [ledger EXCEPT ![id] = @ + amount]
         /\ ret' = Ret("deposit_funds", id, "Ok")
         /\ UNCHANGED <<next_id, Config, now>>

\* lib.rs charge_subscription: a stub that returns Ok(()), whichever address
\* authorized the invocation.
charge_subscription(id, authorizer) ==
    /\ ret' = Ret("charge_subscription", id, "Ok")
    /\ UNCHANGED <<store, next_id, Config, now, ledger>>

\* Mutant: the merchant not accepted as authorizer.
cancelled_by_subscriber_only(S, id, authorizer) ==
    IF get_subscription(S, id) = None THEN Charged(S, "NotFound")
    ELSE IF S[id].status = "Cancelled" THEN Charged(S, "Ok")
    ELSE IF authorizer # S[id].subscriber THEN Charged(S, "Unauthorized")
    ELSE Charged([S EXCEPT ![id].status = "Cancelled"], "Ok")

\* lib.rs cancel_subscription: what it returns and the storage it leaves.
cancelled(S, id, authorizer) ==
    IF get_subscription(S, id) = None THEN Charged(S, "NotFound")
    ELSE IF S[id].status = "Cancelled" THEN Charged(S, "Ok")
    ELSE IF authorizer # S[id].subscriber /\ authorizer # S[id].merchant
         THEN Charged(S, "Unauthorized")
    ELSE Charged([S EXCEPT ![id].status = "Cancelled"], "Ok")

cancel_subscription(id, authorizer) ==
    LET r == cancelled(store, id, authorizer) IN
    /\ store' = r.store
    /\ ret' = Ret("cancel_subscription", id, r.res)
    /\ UNCHANGED <<next_id, Config, now, ledger>>

\* Mutant: the refund paid out with the balance left in the record.
withdraw_subscriber_funds_keeping_balance(id, subscriber) ==
    IF get_subscription(store, id) = None THEN Failed("withdraw_subscriber_funds", id, "NotFound")
    ELSE IF subscriber # store[id].subscriber
         THEN Failed("withdraw_subscriber_funds", id, "Unauthorized")
    ELSE IF store[id].status # "Cancelled"
         THEN Failed("withdraw_subscriber_funds", id, "Unauthorized")
    ELSE LET amount_to_refund == store[id].prepaid_balance IN
         IF amount_to_refund > 0 THEN
             IF token = None \/ ~token_transfer(amount_to_refund)
             THEN Failed("withdraw_subscriber_funds", id, "Trap")
             ELSE /\ ledger' = [ledger EXCEPT ![id] = @ - amount_to_refund]
                  /\ ret' = Ret("withdraw_subscriber_funds", id, "Ok")
                  /\ UNCHANGED <<store, next_id, Config, now>>
         ELSE Failed("withdraw_subscriber_funds", id, "Ok")

withdraw_subscriber_funds(id, subscriber) ==
    IF get_subscription(store, id) = None THEN Failed("withdraw_subscriber_funds", id, "NotFound")
    ELSE IF subscriber # store[id].subscriber
         THEN Failed("withdraw_subscriber_funds", id, "Unauthorized")
    ELSE IF store[id].status # "Cancelled"
         THEN Failed("withdraw_subscriber_funds", id, "Unauthorized")
    ELSE LET amount_to_refund == store[id].prepaid_balance IN
         IF amount_to_refund > 0 THEN
             IF token = None \/ ~token_transfer(amount_to_refund)
             THEN Failed("withdraw_subscriber_funds", id, "Trap")
             ELSE /\ store' = [store EXCEPT ![id].prepaid_balance = 0]
                  /\ ledger' = [ledger EXCEPT ![id] = @ - amount_to_refund]
                  /\ ret' = Ret("withdraw_subscriber_funds", id, "Ok")
                  /\ UNCHANGED <<next_id, Config, now>>
         ELSE Failed("withdraw_subscriber_funds", id, "Ok")

\* lib.rs pause_subscription: a stub that returns Ok(()).
pause_subscription(id, authorizer) ==
    /\ ret' = Ret("pause_subscription", id, "Ok")
    /\ UNCHANGED <<store, next_id, Config, now, ledger>>

\* resume_subscription is not in the sources; the tests call it.
resume_subscription(id, authorizer) ==
    IF get_subscription(store, id) = None THEN Failed("resume_subscription", id, "NotFound")
    ELSE IF validate_status_transition(store[id].status, "Active") # "Ok"
         THEN Failed("resume_subscription", id, "InvalidStatusTransition")
    ELSE /\ store' = [store EXCEPT ![id].status = "Active"]
         /\ ret' = Ret("resume_subscription", id, "Ok")
         /\ UNCHANGED <<next_id, Config, now, ledger>>

\* --------------------------------------------------------------- estimator
\* Mutant: the shortfall not clamped at zero.
estimate_topup_unclamped(S, id, num_intervals) ==
    IF get_subscription(S, id) = None THEN [res |-> "NotFound", val |-> 0]
    ELSE [res |-> "Ok", val |-> S[id].amount * num_intervals - S[id].prepaid_balance]

\* Mutant: a balance below the requirement reported as an error.
estimate_topup_refusing(S, id, num_intervals) ==
    IF get_subscription(S, id) = None THEN [res |-> "NotFound", val |-> 0]
    ELSE IF S[id].amount * num_intervals > S[id].prepaid_balance
         THEN [res |-> "InsufficientBalance", val |-> 0]
         ELSE [res |-> "Ok", val |-> 0]

\* estimate_topup_for_intervals is not in the sources; the tests call it.
\* required = amount * num_intervals; topup = max(required - prepaid_balance, 0)
estimate_topup(S, id, num_intervals) ==
    IF get_subscription(S, id) = None THEN [res |-> "NotFound", val |-> 0]
    ELSE LET required == S[id].amount * num_intervals
         IN  IF required > S[id].prepaid_balance
             THEN [res |-> "Ok", val |-> required - S[id].prepaid_balance]
             ELSE [res |-> "Ok", val |-> 0]

estimate_topup_for_intervals(id, num_intervals) ==
    LET e == estimate_topup(store, id, num_intervals) IN
    /\ ret' = [Ret("estimate_topup_for_intervals", id, e.res) EXCEPT !.val = e.val]
    /\ UNCHANGED <<store, next_id, Config, now, ledger>>

\* ------------------------------------------------------------------- admin
do_init(token_, admin_, min_topup_, grace_period_) ==
    IF token # None THEN Failed("init", 0, "AlreadyInitialized")
    ELSE /\ token' = Some(token_)
         /\ admin' = Some(admin_)
         /\ min_topup' = Some(min_topup_)
         /\ grace_period' = Some(grace_period_)
         /\ ret' = Ret("init", 0, "Ok")
         /\ UNCHANGED <<store, next_id, now, ledger>>

require_admin(a) == IF a = None THEN "Unauthorized" ELSE "Ok"

do_set_min_topup(admin_, min_topup_) ==
    IF require_admin(admin) # "Ok" THEN Failed("set_min_topup", 0, "Unauthorized")
    ELSE IF admin_ # unwrap(admin) THEN Failed("set_min_topup", 0, "Unauthorized")
    ELSE /\ min_topup' = Some(min_topup_)
         /\ ret' = Ret("set_min_topup", 0, "Ok")
         /\ UNCHANGED <<store, next_id, token, admin, grace_period, now, ledger>>

\* admin.rs get_min_topup: the stored value, NotFound (None) when unset.
get_min_topup(mt) == mt

do_set_grace_period(admin_, grace_period_) ==
    IF require_admin(admin) # "Ok" THEN Failed("set_grace_period", 0, "Unauthorized")
    ELSE IF admin_ # unwrap(admin) THEN Failed("set_grace_period", 0, "Unauthorized")
    ELSE /\ grace_period' = Some(grace_period_)
         /\ ret' = Ret("set_grace_period", 0, "Ok")
         /\ UNCHANGED <<store, next_id, token, admin, min_topup, now, ledger>>

to_code(e) ==
    CASE e = "NotFound"                -> 404
      [] e = "Unauthorized"            -> 401
      [] e = "InvalidStatusTransition" -> 400
      [] e = "IntervalNotElapsed"      -> 1001
      [] e = "NotActive"               -> 1002
      [] e = "InsufficientBalance"     -> 1003
      [] e = "Overflow"                -> 403

\* Mutant: the error code of a failed item left at zero.
BatchChargeResult_uncoded(r) == [success |-> r = "Ok", error_code |-> 0]

BatchChargeResult(r) ==
    IF r = "Ok" THEN [success |-> TRUE, error_code |-> 0]
    ELSE [success |-> FALSE, error_code |-> to_code(r)]

\* Mutant: an item that failed is attempted a second time.
RECURSIVE batch_loop_retrying(_, _, _, _, _)
batch_loop_retrying(S, gp, ids, t, results) ==
    IF ids = <<>> THEN [store |-> S, results |-> results]
    ELSE LET r == charge_one(S, gp, Head(ids), t)
             again == IF r.res = "Ok" THEN r ELSE charge_one(r.store, gp, Head(ids), t)
         IN  batch_loop_retrying(again.store, gp, Tail(ids), t,
                                 Append(results, BatchChargeResult(again.res)))

\* Mutant: an id that is not found leaves no result behind.
RECURSIVE batch_loop_skipping(_, _, _, _, _)
batch_loop_skipping(S, gp, ids, t, results) ==
    IF ids = <<>> THEN [store |-> S, results |-> results]
    ELSE LET r == charge_one(S, gp, Head(ids), t)
         IN  batch_loop_skipping(r.store, gp, Tail(ids), t,
                                 IF r.res = "NotFound" THEN results
                                 ELSE Append(results, BatchChargeResult(r.res)))

\* The loop of do_batch_charge: the store and the results after ids[k..].
RECURSIVE batch_loop(_, _, _, _, _)
batch_loop(S, gp, ids, t, results) ==
    IF ids = <<>> THEN [store |-> S, results |-> results]
    ELSE LET r == charge_one(S, gp, Head(ids), t)
         IN  batch_loop(r.store, gp, Tail(ids), t, Append(results, BatchChargeResult(r.res)))

\* What the successful charges of a batch took from each subscription.
RECURSIVE batch_charged(_, _, _)
batch_charged(S, ids, results) ==
    IF ids = <<>> THEN [i \in DOMAIN S |-> 0]
    ELSE LET rest == batch_charged(S, Tail(ids), Tail(results))
         IN  IF Head(results).success
             THEN [rest EXCEPT ![Head(ids)] = @ + S[Head(ids)].amount]
             ELSE rest

\* Mutant: the administrator's authorization not demanded.
do_batch_charge_by_anyone(caller, subscription_ids) ==
    IF require_admin(admin) # "Ok" THEN Failed("batch_charge", 0, "Unauthorized")
    ELSE LET b == batch_loop(store, grace_period, subscription_ids, now, <<>>)
             taken == batch_charged(store, subscription_ids, b.results)
         IN  /\ store' = b.store
             /\ ledger' = [i \in DOMAIN ledger |-> ledger[i] - taken[i]]
             /\ ret' = [Ret("batch_charge", 0, "Ok") EXCEPT
                            !.ids = subscription_ids, !.results = b.results]
             /\ UNCHANGED <<next_id, Config, now>>

do_batch_charge(caller, subscription_ids) ==
    IF require_admin(admin) # "Ok" THEN Failed("batch_charge", 0, "Unauthorized")
    ELSE IF caller # unwrap(admin) THEN Failed("batch_charge", 0, "Trap")
    ELSE LET b == batch_loop(store, grace_period, subscription_ids, now, <<>>)
             taken == batch_charged(store, subscription_ids, b.results)
         IN  /\ store' = b.store
             /\ ledger' = [i \in DOMAIN ledger |-> ledger[i] - taken[i]]
             /\ ret' = [Ret("batch_charge", 0, "Ok") EXCEPT
                            !.ids = subscription_ids, !.results = b.results]
             /\ UNCHANGED <<next_id, Config, now>>

BatchInputs == UNION {[1..n -> Ids] : n \in 0..MaxBatch}

Next ==
    \/ Tick
    \/ \E id \in Ids : ChargeOne(id)
    \/ /\ next_id < MaxSubs
       /\ \E s \in Subscribers, m \in Merchants, a \in AmountInputs, i \in IntervalInputs :
              create_subscription(s, m, a, i, FALSE)
    \/ \E id \in Ids, s \in Address, a \in DepositInputs : deposit_funds(id, s, a)
    \/ \E id \in Ids, authorizer \in Address : charge_subscription(id, authorizer)
    \/ \E id \in Ids, a \in Address : cancel_subscription(id, a)
    \/ \E id \in Ids, s \in Address : withdraw_subscriber_funds(id, s)
    \/ \E id \in Ids, a \in Address : pause_subscription(id, a)
    \/ \E id \in Ids, a \in Address : resume_subscription(id, a)
    \/ \E a \in Admins, m \in MinTopupInputs, g \in GraceInputs : do_init("token", a, m, g)
    \/ \E a \in Address, m \in MinTopupInputs : do_set_min_topup(a, m)
    \/ \E a \in Address, g \in GraceInputs : do_set_grace_period(a, g)
    \/ \E c \in Address, ids \in BatchInputs : do_batch_charge(c, ids)
    \/ \E id \in Ids, n \in 0..MaxNumIntervals : estimate_topup_for_intervals(id, n)

Spec == Init /\ [][Next]_vars

\* ------------------------------------------------- the charge-and-tick system
\* A subscription just created at t0 and funded with b, the contract configured
\* with grace period g; from there only charge attempts and clock ticks happen.
LiveInit ==
    \E a \in AmountInputs, i \in IntervalInputs, t0 \in 0..U64_MAX,
       b \in 0..I128_MAX, g \in GraceInputs :
        /\ store = (0 :> [subscriber |-> "alice",
                          merchant |-> "bob",
                          amount |-> a,
                          interval_seconds |-> i,
                          last_payment_timestamp |-> t0,
                          status |-> "Active",
                          prepaid_balance |-> b,
                          usage_enabled |-> FALSE])
        /\ next_id = 1
        /\ token = Some("token")
        /\ admin = Some("carol")
        /\ grace_period = Some(g)
        /\ min_topup = Some(MaxMinTopup)
        /\ now = t0
        /\ ret = IF b = 0 THEN Ret("create_subscription", 0, "Ok")
                 ELSE Ret("deposit_funds", 0, "Ok")
        /\ ledger = (0 :> b)

LiveNext ==
    \/ Tick
    \/ \E id \in Ids : ChargeOne(id)

\* The scheduler keeps attempting the charge and the ledger keeps closing.
LiveSpec ==
    /\ LiveInit
    /\ [][LiveNext]_vars
    /\ WF_vars(Tick)
    /\ \A id \in Ids : WF_vars(ChargeOne(id))

\* ------------------------------------------------------------ the batch system
\* BatchSubs subscriptions created at time 0 and funded, the contract configured;
\* from there the administrator's batches and clock ticks happen.
Fresh(a, i, t0, b) ==
    [subscriber |-> "alice",
     merchant |-> "bob",
     amount |-> a,
     interval_seconds |-> i,
     last_payment_timestamp |-> t0,
     status |-> "Active",
     prepaid_balance |-> b,
     usage_enabled |-> FALSE]

BatchIds == 0..BatchSubs            \* BatchSubs itself is not a stored id

BatchLists == UNION {[1..n -> BatchIds] : n \in 0..MaxBatch}

BatchInit ==
    \E a \in [0..BatchSubs - 1 -> AmountInputs], i \in IntervalInputs,
       b \in [0..BatchSubs - 1 -> 0..I128_MAX], t0 \in {0}, g \in GraceInputs :
        /\ store = [k \in 0..BatchSubs - 1 |-> Fresh(a[k], i, t0, b[k])]
        /\ next_id = BatchSubs
        /\ token = Some("token")
        /\ admin = Some("carol")
        /\ grace_period = Some(g)
        /\ min_topup = Some(MaxMinTopup)
        /\ now = t0
        /\ ret = Ret("create_subscription", BatchSubs - 1, "Ok")
        /\ ledger = b

BatchNext ==
    \/ Tick
    \/ \E ids \in BatchLists : do_batch_charge("carol", ids)

BatchSpec == BatchInit /\ [][BatchNext]_vars

\* ---------------------------------------------------------- the creation system
\* Subscriptions are created one after another until the id counter is
\* exhausted, while the clock ticks and the parties cancel.
IdNext ==
    \/ Tick
    \/ \E s \in Subscribers, m \in Merchants : create_subscription(s, m, MaxAmount, MaxInterval, FALSE)
    \/ \E id \in 0..U32_MAX, a \in Address : cancel_subscription(id, a)

IdSpec == Init /\ [][IdNext]_vars

\* ------------------------------------------------------------------ claims
Outcome(id) == charge_one(store, grace_period, id, now)

Chargeable(sub) == sub.status \in {"Active", "GracePeriod"}

Elapsed(sub) == now >= sub.last_payment_timestamp + sub.interval_seconds

GraceEnd(sub) ==
    sub.last_payment_timestamp + sub.interval_seconds + get_grace_period(grace_period)

LastCharge(id, res) == ret.op = "charge_one" /\ ret.id = id /\ ret.res = res

\* C1: in every reachable state every stored subscription has
\* prepaid_balance >= 0.
C1_BalanceNonNegative == \A id \in DOMAIN store : store[id].prepaid_balance >= 0

\* A successful charge of a positive amount that took the whole balance.
C1_Witness ==
    \E id \in DOMAIN store :
        /\ LastCharge(id, "Ok")
        /\ store[id].amount > 0
        /\ store[id].prepaid_balance = 0

\* C2: for every subscription, in every reachable state, prepaid_balance
\* equals the deposits minus amount for each successful charge minus the
\* refunds; a failed charge takes nothing.
C2_MoneyConserved == \A id \in DOMAIN store : store[id].prepaid_balance = ledger[id]

\* Two consecutive successful charges of one subscription, in one batch.
C2_Witness ==
    /\ ret.op = "batch_charge"
    /\ ret.ids = <<0, 0>>
    /\ ret.results[1].success /\ ret.results[2].success
    /\ store[0].amount > 0
    /\ store[0].prepaid_balance = ledger[0]

\* C3: for a subscription with amount > 0, status Active or GracePeriod, the
\* interval elapsed and prepaid_balance >= amount, the charge succeeds and the
\* stored prepaid_balance is the previous one minus exactly amount.
C3_BalanceConservation ==
    \A id \in DOMAIN store :
        LET sub == store[id] IN
        (sub.amount > 0 /\ Chargeable(sub) /\ Elapsed(sub) /\ sub.prepaid_balance >= sub.amount)
            => /\ Outcome(id).res = "Ok"
               /\ Outcome(id).store[id].prepaid_balance = sub.prepaid_balance - sub.amount

\* A successful charge of a positive amount that left funds behind.
C3_Witness ==
    \E id \in DOMAIN store :
        /\ LastCharge(id, "Ok")
        /\ store[id].amount > 0
        /\ store[id].prepaid_balance > 0
        /\ store[id].last_payment_timestamp = now

\* C4: if a charge of a subscription succeeds at ledger time t, a second charge
\* of it at the same t fails with IntervalNotElapsed and leaves prepaid_balance
\* and last_payment_timestamp unchanged.
C4_NoDoubleCharge ==
    \A id \in DOMAIN store :
        LET first == Outcome(id)
            second == charge_one(first.store, grace_period, id, now)
        IN  first.res = "Ok"
            => /\ second.res = "IntervalNotElapsed"
               /\ second.store[id].prepaid_balance = first.store[id].prepaid_balance
               /\ second.store[id].last_payment_timestamp = first.store[id].last_payment_timestamp

\* C5: after any single operation each subscription's status is unchanged or a
\* member of get_allowed_transitions(status before the operation).
C5_TransitionClosure ==
    [][\A id \in DOMAIN store :
          \/ store'[id].status = store[id].status
          \/ store'[id].status \in get_allowed_transitions(store[id].status)]_vars

\* C6: a Cancelled subscription stays Cancelled; a charge of it fails with
\* NotActive, pause and resume fail with InvalidStatusTransition, and none of
\* them changes the record.
C6_CancelledTerminal ==
    [][\A id \in DOMAIN store :
          store[id].status = "Cancelled"
          => /\ store'[id].status = "Cancelled"
             /\ (ret'.op = "charge_one" /\ ret'.id = id)
                    => (ret'.res = "NotActive" /\ store'[id] = store[id])
             /\ (ret'.op \in {"pause_subscription", "resume_subscription"} /\ ret'.id = id)
                    => (ret'.res = "InvalidStatusTransition" /\ store'[id] = store[id])]_vars

\* C7: for a subscription whose status is Paused, Cancelled or
\* InsufficientBalance, a charge fails with NotActive for every balance and
\* ledger time, and no field of the record changes.
C7_NonActiveRejected ==
    \A id \in DOMAIN store :
        \A st \in {"Paused", "Cancelled", "InsufficientBalance"} :
            LET S == [store EXCEPT ![id].status = st]
                r == charge_one(S, grace_period, id, now)
            IN  r.res = "NotActive" /\ r.store = S

\* A rejected charge of a funded, due subscription that is not active.
C7_Witness ==
    \E id \in DOMAIN store :
        /\ LastCharge(id, "NotActive")
        /\ store[id].status \in {"Cancelled", "InsufficientBalance"}
        /\ store[id].prepaid_balance >= store[id].amount
        /\ Elapsed(store[id])

GraceAdmitted(id) ==
    /\ Outcome(id).res = "InsufficientBalance"
    /\ Outcome(id).store[id] = [store[id] EXCEPT !.status = "GracePeriod"]

Short(id) ==
    /\ Chargeable(store[id])
    /\ store[id].prepaid_balance < store[id].amount
    /\ GraceEnd(store[id]) <= U64_MAX

C12_ExactBoundary ==
    \A id \in DOMAIN store :
        LET sub == store[id] IN
        (sub.status = "Active" /\ sub.prepaid_balance >= sub.amount
            /\ now = sub.last_payment_timestamp + sub.interval_seconds)
            => /\ Outcome(id).res = "Ok"
               /\ Outcome(id).store[id].last_payment_timestamp = now

Early(sub, t) == t < sub.last_payment_timestamp + sub.interval_seconds

Rejected(id, t) == charge_one(store, grace_period, id, t) = Charged(store, "IntervalNotElapsed")

\* C13 as stated: for every Active or GracePeriod subscription and every
\* now < last_payment_timestamp + interval_seconds, a charge fails with
\* IntervalNotElapsed whatever the balance, and the stored record is unchanged.
C13_EarlyRejection_AsStated ==
    \A id \in DOMAIN store : \A t \in 0..U64_MAX :
        (Chargeable(store[id]) /\ Early(store[id], t)) => Rejected(id, t)

\* C13: the same, when last_payment_timestamp + interval_seconds does not
\* exceed the maximum of the time type.
C13_EarlyRejection ==
    \A id \in DOMAIN store : \A t \in 0..U64_MAX :
        (Chargeable(store[id]) /\ Early(store[id], t)
            /\ store[id].last_payment_timestamp + store[id].interval_seconds <= U64_MAX)
            => Rejected(id, t)

\* A funded subscription charged one second before it is due, and left alone.
C13_Witness ==
    \E id \in DOMAIN store :
        /\ LastCharge(id, "IntervalNotElapsed")
        /\ store = ret.before
        /\ store[id].prepaid_balance >= store[id].amount
        /\ store[id].amount > 0
        /\ now + 1 = store[id].last_payment_timestamp + store[id].interval_seconds

\* The last call charged id successfully, alone or as an entry of a batch.
ChargedOk(id) ==
    \/ LastCharge(id, "Ok")
    \/ /\ ret.op = "batch_charge"
       /\ \E k \in DOMAIN ret.ids : ret.ids[k] = id /\ k \in DOMAIN ret.results
                                     /\ ret.results[k].success

Window(id) == store[id].last_payment_timestamp + store[id].interval_seconds

\* C14 as stated: after a successful charge at ledger time t, late or not, the
\* stored last_payment_timestamp is t, and a charge at any later time
\* t' < t + interval_seconds fails with IntervalNotElapsed.
C14_SlidingWindow_AsStated ==
    \A id \in DOMAIN store :
        ChargedOk(id)
        => /\ store[id].last_payment_timestamp = now
           /\ \A t \in now..U64_MAX : t < now + store[id].interval_seconds => Rejected(id, t)

\* C14: the same, when t + interval_seconds does not exceed the maximum of the
\* time type.
C14_SlidingWindow ==
    \A id \in DOMAIN store :
        ChargedOk(id)
        => /\ store[id].last_payment_timestamp = now
           /\ \A t \in now..U64_MAX :
                  (t < now + store[id].interval_seconds /\ Window(id) <= U64_MAX)
                  => Rejected(id, t)

\* A charge collected later than scheduled, whose new window is not empty.
C14_Witness ==
    \E id \in DOMAIN store :
        /\ LastCharge(id, "Ok")
        /\ now > ret.before[id].last_payment_timestamp + ret.before[id].interval_seconds
        /\ store[id].interval_seconds > 0
        /\ Window(id) <= U64_MAX
        /\ store[id].last_payment_timestamp = now

\* C15: across any sequence of operations the last_payment_timestamp of a
\* subscription never decreases, and a step changes it only by charging that
\* subscription successfully.
C15_TimestampMonotone ==
    [][\A id \in DOMAIN store :
          /\ store'[id].last_payment_timestamp >= store[id].last_payment_timestamp
          /\ store'[id].last_payment_timestamp # store[id].last_payment_timestamp
                => ChargedOk(id)']_vars

\* A successful charge that moved the timestamp forward.
C15_Witness ==
    \E id \in DOMAIN store :
        /\ ChargedOk(id)
        /\ store[id].last_payment_timestamp > ret.before[id].last_payment_timestamp

\* C16: after a successful charge the status is Active: from Active it stays
\* Active, and from GracePeriod it becomes Active in the one record written,
\* the record that also carries the deducted balance and the new timestamp.
C16_ActiveAfterCharge ==
    \A id \in DOMAIN store :
        LET sub == store[id] IN
        Outcome(id).res = "Ok"
        => /\ Outcome(id).store[id].status = "Active"
           /\ Outcome(id).store[id] =
                  [sub EXCEPT !.status = "Active",
                              !.prepaid_balance = @ - sub.amount,
                              !.last_payment_timestamp = now]

\* A subscription in its grace window, topped up and charged back to Active.
C16_Witness ==
    \E id \in DOMAIN store :
        /\ LastCharge(id, "Ok")
        /\ ret.before[id].status = "GracePeriod"
        /\ store[id].status = "Active"
        /\ store[id].amount > 0
        /\ store[id].prepaid_balance = ret.before[id].prepaid_balance - store[id].amount

Untouched(id, t, res) == charge_one(store, grace_period, id, t) = Charged(store, res)

\* C17: for an Active or GracePeriod subscription, when last_payment_timestamp
\* + interval_seconds exceeds the maximum of the time type the charge fails
\* with Overflow at every ledger time; when the sum fits, the charge is due,
\* the funds are short and next_allowed + grace_period_seconds exceeds the
\* maximum, it fails with Overflow too; neither writes anything.
C17_OverflowGuard ==
    \A id \in DOMAIN store : \A t \in 0..U64_MAX :
        LET sub == store[id] IN
        Chargeable(sub)
        => /\ Window(id) > U64_MAX => Untouched(id, t, "Overflow")
           /\ (Window(id) <= U64_MAX /\ t >= Window(id)
                  /\ sub.prepaid_balance < sub.amount /\ GraceEnd(sub) > U64_MAX)
              => Untouched(id, t, "Overflow")

\* A short subscription charged when it is due, with a grace window that runs
\* past the end of time.
C17_Witness ==
    \E id \in DOMAIN store :
        /\ LastCharge(id, "Overflow")
        /\ store = ret.before
        /\ Window(id) <= now
        /\ store[id].prepaid_balance < store[id].amount
        /\ GraceEnd(store[id]) > U64_MAX

Distinct(ids) == \A j, k \in DOMAIN ids : j # k => ids[j] # ids[k]

\* Every entry of ids is a stored subscription that is Active or GracePeriod
\* and due, and the entry at position f is the only one short of funds.
OneShort(ids, f) ==
    /\ Distinct(ids)
    /\ \A k \in DOMAIN ids :
           /\ ids[k] \in DOMAIN store
           /\ Chargeable(store[ids[k]])
           /\ Elapsed(store[ids[k]])
           /\ (store[ids[k]].prepaid_balance < store[ids[k]].amount) <=> (k = f)

Isolated(ids, f) ==
    LET b == batch_loop(store, grace_period, ids, now, <<>>) IN
    \A k \in DOMAIN ids :
        LET id == ids[k] IN
        IF k = f
        THEN /\ b.store[id].prepaid_balance = store[id].prepaid_balance
             /\ ~b.results[k].success
             /\ b.results[k].error_code = to_code("InsufficientBalance")
        ELSE /\ b.results[k].success
             /\ b.store[id].prepaid_balance = store[id].prepaid_balance - store[id].amount

\* C18: in a batch over distinct ids where exactly one entry is short of funds
\* and all the others are chargeable, every other entry succeeds with its
\* balance reduced by exactly its amount, wherever the failing entry stands;
\* the failing entry keeps its balance and its result is a failure carrying
\* the code of InsufficientBalance.
C18_BatchIsolation ==
    \A ids \in BatchLists : \A f \in DOMAIN ids : OneShort(ids, f) => Isolated(ids, f)

\* The storage a batch over ids finds when it comes to its n-th entry.
RECURSIVE StoreAt(_, _, _)
StoreAt(S, ids, n) ==
    IF n = 1 THEN S
    ELSE charge_one(StoreAt(S, ids, n - 1), grace_period, ids[n - 1], now).store

\* C19: for every list of ids, unknown and non-chargeable ones included,
\* batch_charge returns a list of the same length whose i-th result is the
\* outcome of charging ids[i] in its turn; an empty list gives an empty list
\* and changes no state.
C19_BatchPreservesOrder ==
    \A ids \in BatchInputs :
        LET b == batch_loop(store, grace_period, ids, now, <<>>) IN
        /\ Len(b.results) = Len(ids)
        /\ \A i \in DOMAIN ids :
               b.results[i] =
                   BatchChargeResult(charge_one(StoreAt(store, ids, i), grace_period, ids[i], now).res)
        /\ ids = <<>> => (b.results = <<>> /\ b.store = store)

\* A batch of an unknown id followed by a subscription that was charged.
C19_Witness ==
    /\ ret.op = "batch_charge"
    /\ ret.res = "Ok"
    /\ ret.ids = <<1, 0>>
    /\ Len(ret.results) = 2
    /\ ret.results[1] = BatchChargeResult("NotFound")
    /\ ret.results[2].success
    /\ store[0].prepaid_balance = ret.before[0].prepaid_balance - store[0].amount
    /\ store[0].amount > 0

NotTheAdmin(c) == admin = None \/ c # unwrap(admin)

\* C21: batch_charge invoked by a caller who is not the configured
\* administrator, or when no administrator is configured, fails as a whole:
\* it returns no result list and changes no subscription record.
C21_BatchNeedsAdmin ==
    [][\A c \in Address :
          (NotTheAdmin(c) /\ ret'.op = "batch_charge"
              /\ \E ids \in BatchInputs : do_batch_charge(c, ids))
          => /\ ret'.res \in {"Unauthorized", "Trap"}
             /\ ret'.results = <<>>
             /\ store' = store]_vars

\* A batch refused although the administrator is configured and a
\* subscription in it was due and funded.
C21_Witness ==
    /\ ret.op = "batch_charge"
    /\ ret.res = "Trap"
    /\ admin # None
    /\ store = ret.before
    /\ \E id \in DOMAIN store :
           /\ Chargeable(store[id]) /\ Elapsed(store[id])
           /\ store[id].amount > 0
           /\ store[id].prepaid_balance >= store[id].amount

ListedEdges ==
    {<<"Active", "Paused">>, <<"Active", "Cancelled">>,
     <<"Active", "InsufficientBalance">>, <<"Active", "GracePeriod">>,
     <<"Paused", "Active">>, <<"Paused", "Cancelled">>,
     <<"GracePeriod", "Active">>, <<"GracePeriod", "InsufficientBalance">>,
     <<"InsufficientBalance", "Active">>, <<"InsufficientBalance", "Cancelled">>}

StatusesInUse == SubscriptionStatus \cup {store[id].status : id \in DOMAIN store}

Max(a, b) == IF a >= b THEN a ELSE b

\* C24: for every stored subscription and every n,
\* estimate_topup_for_intervals(id, n) is max(amount * n - prepaid_balance, 0);
\* it is 0 for n = 0 and whenever prepaid_balance >= amount * n, and it is
\* never negative.
C24_TopupCorrect ==
    \A id \in DOMAIN store : \A n \in 0..MaxNumIntervals :
        LET e == estimate_topup(store, id, n)
            required == store[id].amount * n
        IN  /\ e.res = "Ok"
            /\ e.val = Max(required - store[id].prepaid_balance, 0)
            /\ n = 0 => e.val = 0
            /\ store[id].prepaid_balance >= required => e.val = 0
            /\ e.val >= 0

\* An estimate for two intervals of a subscription funded for one.
C24_Witness ==
    /\ ret.op = "estimate_topup_for_intervals"
    /\ ret.res = "Ok"
    /\ ret.id \in DOMAIN store
    /\ store[ret.id].prepaid_balance > 0
    /\ ret.val > 0
    /\ ret.val = 2 * store[ret.id].amount - store[ret.id].prepaid_balance

\* C25: estimate_topup_for_intervals is read-only: for every id and n it
\* leaves every subscription record and all configuration unchanged, it fails
\* with NotFound exactly when the id is unknown, and it never fails because of
\* the balance.
C25_EstimateReadOnly ==
    [][ret'.op = "estimate_topup_for_intervals"
       => \A id \in Ids, n \in 0..MaxNumIntervals :
              estimate_topup_for_intervals(id, n)
              => /\ store' = store
                 /\ <<next_id, Config>>' = <<next_id, Config>>
                 /\ (ret'.res = "NotFound") <=> (id \notin DOMAIN store)
                 /\ id \in DOMAIN store => ret'.res = "Ok"]_vars

\* An estimate answered for a subscription that holds no funds at all.
C25_Witness ==
    /\ ret.op = "estimate_topup_for_intervals"
    /\ ret.res = "Ok"
    /\ ret.id \in DOMAIN store
    /\ store = ret.before
    /\ store[ret.id].prepaid_balance = 0
    /\ store[ret.id].amount > 0
    /\ ret.val = 2 * store[ret.id].amount

Parties(sub) == {sub.subscriber, sub.merchant}

\* C26: cancel_subscription authorized by the subscriber or the merchant moves
\* a subscription from Active, Paused or InsufficientBalance to Cancelled, and
\* on a subscription that is already Cancelled it succeeds and leaves the
\* record unchanged.
C26_CancelIdempotent ==
    \A id \in DOMAIN store : \A a \in Parties(store[id]) :
        /\ \A st \in {"Active", "Paused", "InsufficientBalance"} :
               LET S == [store EXCEPT ![id].status = st]
               IN  cancelled(S, id, a) = Charged([S EXCEPT ![id].status = "Cancelled"], "Ok")
        /\ LET S == [store EXCEPT ![id].status = "Cancelled"]
           IN  cancelled(S, id, a) = Charged(S, "Ok")

\* A subscription demoted for lack of funds and then cancelled by its merchant
\* or subscriber.
C26_Witness ==
    \E id \in DOMAIN store :
        /\ ret.op = "cancel_subscription" /\ ret.id = id /\ ret.res = "Ok"
        /\ ret.before[id].status = "InsufficientBalance"
        /\ store[id] = [ret.before[id] EXCEPT !.status = "Cancelled"]

Invoked(op, id) == ret'.op = op /\ ret'.id = id

\* C27: pause_subscription sets the status to Paused when the subscription is
\* Active, succeeds without effect when it is already Paused, and fails with
\* InvalidStatusTransition, leaving the record unchanged, when it is Cancelled
\* or InsufficientBalance.
C27_PauseTransitions ==
    [][\A id \in DOMAIN store :
          Invoked("pause_subscription", id)
          => /\ store[id].status = "Active"
                => (ret'.res = "Ok" /\ store'[id] = [store[id] EXCEPT !.status = "Paused"])
             /\ store[id].status = "Paused"
                => (ret'.res = "Ok" /\ store'[id] = store[id])
             /\ store[id].status \in {"Cancelled", "InsufficientBalance"}
                => (ret'.res = "InvalidStatusTransition" /\ store'[id] = store[id])]_vars

\* C28: resume_subscription sets the status to Active when the subscription is
\* Paused or InsufficientBalance and fails with InvalidStatusTransition,
\* leaving the record unchanged, when it is Cancelled; a pause followed by a
\* resume takes an Active subscription to Paused and back to Active, and a
\* pause after that pauses it again.
C28_ResumeLifecycle ==
    [][\A id \in DOMAIN store :
          /\ Invoked("resume_subscription", id)
             => /\ store[id].status \in {"Paused", "InsufficientBalance"}
                   => (ret'.res = "Ok" /\ store'[id] = [store[id] EXCEPT !.status = "Active"])
                /\ store[id].status = "Cancelled"
                   => (ret'.res = "InvalidStatusTransition" /\ store'[id] = store[id])
                /\ (ret.op = "pause_subscription" /\ ret.id = id /\ ret.res = "Ok"
                       /\ ret.before[id].status = "Active")
                   => (store[id].status = "Paused" /\ store'[id].status = "Active")
          /\ (Invoked("pause_subscription", id) /\ ret.op = "resume_subscription"
                 /\ ret.id = id /\ ret.res = "Ok")
             => (ret'.res = "Ok" /\ store'[id].status = "Paused")]_vars

\* C29: charge_subscription charges only when the configured administrator
\* authorized it: authorized only by another address it fails and leaves the
\* subscription's prepaid_balance and last_payment_timestamp unchanged;
\* authorized by the administrator, with the interval elapsed and the balance
\* covering the amount, it succeeds.
C29_ChargeNeedsAdmin ==
    [][\A id \in DOMAIN store : \A authorizer \in Address :
          charge_subscription(id, authorizer)
          => /\ NotTheAdmin(authorizer)
                => /\ ret'.res # "Ok"
                   /\ store'[id].prepaid_balance = store[id].prepaid_balance
                   /\ store'[id].last_payment_timestamp = store[id].last_payment_timestamp
             /\ (~NotTheAdmin(authorizer) /\ Chargeable(store[id]) /\ Elapsed(store[id])
                    /\ store[id].prepaid_balance >= store[id].amount)
                => ret'.res = "Ok"]_vars

\* C30: every stored subscription has amount > 0, create_subscription never
\* storing a record with amount <= 0, and so a successful charge always
\* leaves prepaid_balance lower than it was.
C30_AmountPositive ==
    \A id \in DOMAIN store :
        /\ store[id].amount > 0
        /\ ChargedOk(id) => store[id].prepaid_balance < ret.before[id].prepaid_balance

\* C31: subscription ids are assigned in strictly increasing order and never
\* reused: every create_subscription that succeeds returns an id greater than
\* every id handed out before, stores its record under that id and leaves
\* every existing record as it was.
C31_IdsIncreasing ==
    [][(ret'.op = "create_subscription" /\ ret'.res = "Ok")
       => /\ \A id \in DOMAIN store : ret'.id > id /\ store'[id] = store[id]
          /\ DOMAIN store' = DOMAIN store \cup {ret'.id}
          /\ ret'.id < next_id']_vars

\* The last id of u32 range was handed out after earlier subscriptions were
\* created at other times and cancelled.
C31_Witness ==
    /\ ret.op = "create_subscription" /\ ret.res = "Ok"
    /\ ret.id > 1
    /\ \E id \in DOMAIN ret.before :
          /\ store[id].status = "Cancelled"
          /\ store[id].last_payment_timestamp < store[ret.id].last_payment_timestamp

\* C32: deposit_funds with an amount below the configured min_topup is
\* rejected and leaves prepaid_balance unchanged; with an amount equal to or
\* above min_topup, made by the subscription's subscriber, it succeeds and
\* increases prepaid_balance by exactly that amount.
C32_MinTopup ==
    [][\A id \in DOMAIN store : \A s \in Address : \A a \in DepositInputs :
          (get_min_topup(min_topup) # None /\ deposit_funds(id, s, a))
          => /\ a < unwrap(get_min_topup(min_topup))
                => /\ ret'.res # "Ok"
                   /\ store'[id].prepaid_balance = store[id].prepaid_balance
             /\ (a >= unwrap(get_min_topup(min_topup)) /\ s = store[id].subscriber)
                => /\ ret'.res = "Ok"
                   /\ store'[id].prepaid_balance = store[id].prepaid_balance + a]_vars

\* No grace period is stored, or the stored one is 0.
NoGrace == grace_period = None \/ grace_period = Some(0)

\* With no grace: an Active subscription short of funds, charged at any time
\* from next_allowed on, is stored as InsufficientBalance.
DirectlyInsufficient ==
    NoGrace =>
        \A id \in DOMAIN store :
            (store[id].status = "Active" /\ store[id].prepaid_balance < store[id].amount)
            => \A t \in 0..U64_MAX :
                   t >= Window(id)
                   => charge_one(store, grace_period, id, t)
                          = Charged([store EXCEPT ![id].status = "InsufficientBalance"],
                                    "InsufficientBalance")

\* With no grace: no charge, single or in a batch, puts a subscription in GracePeriod.
NoGraceEntered ==
    (NoGrace /\ ret'.op \in {"charge_one", "batch_charge"})
    => \A id \in DOMAIN store : store'[id].status = "GracePeriod" => store[id].status = "GracePeriod"

C34_BatchIsSequential ==
    (ret.op = "batch_charge" /\ ret.res = "Ok")
    => /\ store = StoreAt(ret.before, ret.ids, Len(ret.ids) + 1)
       /\ Len(ret.results) = Len(ret.ids)
       /\ \A k \in DOMAIN ret.ids :
              ret.results[k]
                  = BatchChargeResult(charge_one(StoreAt(ret.before, ret.ids, k),
                                                 grace_period, ret.ids[k], now).res)

\* A batch of two subscriptions in which the first was charged and the second,
\* short of funds, failed: the first charge stands.
C34_Witness ==
    /\ ret.op = "batch_charge"
    /\ ret.res = "Ok"
    /\ Len(ret.ids) = 2
    /\ ret.ids[1] # ret.ids[2]
    /\ ret.results[1].success
    /\ ret.results[2] = BatchChargeResult("InsufficientBalance")
    /\ store[ret.ids[1]].amount > 0
    /\ store[ret.ids[1]].prepaid_balance
           = ret.before[ret.ids[1]].prepaid_balance - store[ret.ids[1]].amount
    /\ store[ret.ids[2]].status # ret.before[ret.ids[2]].status

\* The outcome the order of the checks prescribes for the record sub of id in
\* S at time t, as far as the first four checks decide it.
FirstFailure(S, id, t) ==
    IF id \notin DOMAIN S THEN "NotFound"
    ELSE IF S[id].status \notin {"Active", "GracePeriod"} THEN "NotActive"
    ELSE IF S[id].last_payment_timestamp + S[id].interval_seconds > U64_MAX THEN "Overflow"
    ELSE IF t < S[id].last_payment_timestamp + S[id].interval_seconds THEN "IntervalNotElapsed"
    ELSE "Passed"

\* C35: charge_one returns the error of the first failing check in the order
\* NotFound, NotActive, Overflow of next_allowed, IntervalNotElapsed, and only
\* then the outcome of the funds check or of the deduction; so a Paused
\* subscription charged early yields NotActive and an Active one short of
\* funds charged early yields IntervalNotElapsed with no status change; only
\* the insufficient-funds and success outcomes come with a write to storage.
C35_FirstFailureWins ==
    \A id \in Ids : \A st \in SubscriptionStatus : \A t \in 0..U64_MAX :
        LET S == IF id \in DOMAIN store THEN [store EXCEPT ![id].status = st] ELSE store
            r == charge_one(S, grace_period, id, t)
            f == FirstFailure(S, id, t)
        IN  /\ f # "Passed" => r = Charged(S, f)
            /\ f = "Passed" => r.res \in {"InsufficientBalance", "Ok", "Overflow"}
            /\ r.store # S => r.res \in {"InsufficientBalance", "Ok"}
            /\ (id \in DOMAIN S /\ st = "Paused" /\ Early(S[id], t)) => r = Charged(S, "NotActive")
            /\ (id \in DOMAIN S /\ st = "Active" /\ S[id].prepaid_balance < S[id].amount
                   /\ next_allowed_of(S[id]) # None /\ Early(S[id], t))
               => r = Charged(S, "IntervalNotElapsed")

\* An Active subscription short of funds was charged early: the charge was
\* rejected for the interval and nothing was written.
C35_Witness ==
    \E id \in DOMAIN store :
        /\ LastCharge(id, "IntervalNotElapsed")
        /\ store[id].status = "Active"
        /\ store[id].prepaid_balance < store[id].amount
        /\ Early(store[id], now)
        /\ store = ret.before

\* The last call was a batch in which position j charged a subscription that
\* position k lists again.
Repeated(j, k) ==
    /\ ret.op = "batch_charge" /\ ret.res = "Ok"
    /\ j \in DOMAIN ret.ids /\ k \in DOMAIN ret.ids
    /\ j < k
    /\ ret.ids[j] = ret.ids[k]
    /\ ret.results[j].success

\* Position k of the last batch changed nothing.
Idle(k) == StoreAt(ret.before, ret.ids, k + 1) = StoreAt(ret.before, ret.ids, k)

\* C36: when a batch lists the same subscription more than once and an
\* occurrence succeeds, every later occurrence in the batch fails with
\* IntervalNotElapsed and changes nothing, so the amount is deducted at most once.
C36_RepeatChargedOnce ==
    \A j, k \in 1..MaxBatch :
        Repeated(j, k) => (ret.results[k] = BatchChargeResult("IntervalNotElapsed") /\ Idle(k))

ChargeErrors == {"NotFound", "NotActive", "Overflow", "IntervalNotElapsed", "InsufficientBalance"}

\* The status changes charge_one attempts.
ChargeEdges ==
    {<<"Active", "GracePeriod">>, <<"Active", "InsufficientBalance">>,
     <<"GracePeriod", "InsufficientBalance">>, <<"GracePeriod", "Active">>}

C38_InsufficientBalanceSticks ==
    [][\A id \in DOMAIN store :
          /\ ret'.op = "deposit_funds" => store'[id].status = store[id].status
          /\ store[id].status = "InsufficientBalance"
             => /\ (ret'.op = "charge_one" /\ ret'.id = id)
                   => (ret'.res = "NotActive" /\ store' = store)
                /\ (ret'.op = "batch_charge" /\ ret'.res = "Ok")
                   => /\ store'[id] = store[id]
                      /\ \A k \in DOMAIN ret'.ids :
                             ret'.ids[k] = id => ret'.results[k] = BatchChargeResult("NotActive")
                /\ store'[id].status # "InsufficientBalance"
                   => (ret'.id = id /\ ret'.op \in {"resume_subscription", "cancel_subscription"})]_vars

\* A subscription in InsufficientBalance was topped up to cover its amount and
\* the charge that followed, due, was still refused.
C38_Witness ==
    \E id \in DOMAIN store :
        /\ LastCharge(id, "NotActive")
        /\ store[id].status = "InsufficientBalance"
        /\ store[id].amount > 0
        /\ store[id].prepaid_balance >= store[id].amount
        /\ Elapsed(store[id])

\* C39: cancel_subscription called by an address that is neither the
\* subscriber nor the merchant of the subscription fails with Unauthorized,
\* whatever the status, and changes nothing.
C39_StrangerCannotCancel ==
    [][\A id \in DOMAIN store : \A authorizer \in Address \ Parties(store[id]) :
          cancel_subscription(id, authorizer)
          => (ret'.res = "Unauthorized" /\ store' = store)]_vars

\* A withdrawal that succeeds is the subscriber's, of a Cancelled
\* subscription; it pays out the prepaid_balance it finds and leaves 0, every
\* other field as it was.
RefundsTheBalance ==
    \A id \in DOMAIN store : \A subscriber \in Address :
        (withdraw_subscriber_funds(id, subscriber) /\ ret'.res = "Ok")
        => /\ subscriber = store[id].subscriber
           /\ store[id].status = "Cancelled"
           /\ store' = [store EXCEPT ![id].prepaid_balance = 0]
           /\ ledger[id] - ledger'[id] = store[id].prepaid_balance

\* What was refunded is at most the deposits less the charges: the deposits
\* less the charges less the refunds are never below 0.
NeverOverRefunded == \A id \in DOMAIN store : ledger[id] >= 0

\* C40: withdraw_subscriber_funds succeeds only for the subscriber and only
\* when the status is Cancelled; it refunds exactly the current
\* prepaid_balance and sets it to 0, so a repeated withdrawal refunds nothing,
\* and the total refunded never exceeds the total deposited minus the total
\* charged.
C40_WithdrawExact == []NeverOverRefunded /\ [][RefundsTheBalance]_vars

\* The subscriber withdrew the remaining balance of a cancelled subscription:
\* everything deposited is charged or refunded.
C40_Witness ==
    \E id \in DOMAIN store :
        /\ ret.op = "withdraw_subscriber_funds" /\ ret.id = id /\ ret.res = "Ok"
        /\ ret.before[id].prepaid_balance > 0
        /\ ret.before[id].status = "Cancelled"
        /\ store[id].amount > 0
        /\ store[id].prepaid_balance = 0
        /\ ledger[id] = 0
=============================================================================
